---- MODULE Spec2Model ----
(***************************************************************************)
(* Model of k8s.io/apimachinery/pkg/labels/labels.go: the label Set, its   *)
(* canonical String form, Conflicts / Merge / Equals, and                  *)
(* ConvertSelectorToLabelsMap.                                             *)
(*                                                                         *)
(* A Go string is a sequence of byte values (all text here is ASCII), so   *)
(* that the byte order used by sort and the characters seen by Split and   *)
(* TrimSpace are the real ones.  A Go map is a function from its keys to   *)
(* its values; "range" visits the keys in an unspecified order, which is   *)
(* an explicit parameter (order) of every operator that ranges over a map. *)
(* Maps are reference values: heap[r] is the map behind reference r.       *)
(***************************************************************************)
EXTENDS Integers, Sequences, FiniteSets, TLC

VARIABLES heap,      \* sequence of maps; heap[1], heap[2] are the caller's sets
          op,        \* the call that produced the current results
          arg1,      \* reference passed as first argument (0: none)
          arg2,      \* reference passed as second argument (0: none)
          selector,  \* text passed to ConvertSelectorToLabelsMap
          retStr,    \* string result
          retBool,   \* boolean result
          retSet,    \* reference result (0: none)
          retErr     \* error result ("nil": no error)

vars == <<heap, op, arg1, arg2, selector, retStr, retBool, retSet, retErr>>

\* longest selector, in comma separated tokens, the caller passes
MaxTokens == 2

(***************************************************************************)
(* Text.  "a"=97 "b"=98 "x"=120 "y"=121 "1"=49 "!"=33 " "=32 ","=44 "="=61 *)
(***************************************************************************)
Keys == { <<97>>, <<97, 49>>, <<98>> }          \* "a", "a1", "b"
Vals == { <<120>>, <<>>, <<32, 121>> }          \* "x", "", " y"

Tokens == { <<97, 61, 120>>,                    \* "a=x"
            <<97, 61, 121>>,                    \* "a=y"
            <<32, 98, 32, 61, 32, 120, 32>>,    \* " b = x "
            <<97>>,                             \* "a"
            <<97, 61, 120, 61, 121>>,           \* "a=x=y"
            <<33, 61, 120>>,                    \* "!=x"
            <<97, 61, 33>>,                     \* "a=!"
            <<>> }                              \* ""

RECURSIVE Join(_, _)
\* strings.Join
Join(elems, sep) ==
    IF elems = <<>> THEN <<>>
    ELSE IF Len(elems) = 1 THEN elems[1]
    ELSE elems[1] \o sep \o Join(Tail(elems), sep)

RECURSIVE Split(_, _)
\* strings.Split on a one byte separator
Split(s, c) ==
    IF \A i \in 1..Len(s) : s[i] # c THEN <<s>>
    ELSE LET i == CHOOSE j \in 1..Len(s) :
                      s[j] = c /\ \A h \in 1..(j-1) : s[h] # c
         IN  <<SubSeq(s, 1, i-1)>> \o Split(SubSeq(s, i+1, Len(s)), c)

\* unicode.IsSpace on ASCII
IsSpace(c) == c \in {9, 10, 11, 12, 13, 32}

RECURSIVE TrimSpace(_)
\* strings.TrimSpace
TrimSpace(s) ==
    IF s = <<>> THEN s
    ELSE IF IsSpace(s[1]) THEN TrimSpace(Tail(s))
    ELSE IF IsSpace(s[Len(s)]) THEN TrimSpace(SubSeq(s, 1, Len(s)-1))
    ELSE s

RECURSIVE StrLess(_, _)
\* the < of Go strings: byte-wise lexicographic
StrLess(s, t) ==
    IF t = <<>> THEN FALSE
    ELSE IF s = <<>> THEN TRUE
    ELSE IF s[1] < t[1] THEN TRUE
    ELSE IF s[1] > t[1] THEN FALSE
    ELSE StrLess(Tail(s), Tail(t))

RECURSIVE InsertSorted(_, _)
InsertSorted(x, sorted) ==
    IF sorted = <<>> THEN <<x>>
    ELSE IF StrLess(sorted[1], x) THEN <<sorted[1]>> \o InsertSorted(x, Tail(sorted))
    ELSE <<x>> \o sorted

RECURSIVE Sort(_)
\* sort.StringSlice(x).Sort(): ascending by <
Sort(elems) ==
    IF elems = <<>> THEN <<>>
    ELSE InsertSorted(elems[1], Sort(Tail(elems)))

(***************************************************************************)
(* Maps.                                                                   *)
(***************************************************************************)
\* Set{}
EmptySet == <<>>

\* m[k] = v
MapPut(m, k, v) == [x \in (DOMAIN m) \cup {k} |-> IF x = k THEN v ELSE m[x]]

\* the orders in which "range m" can visit the keys of m
Orders(m) ==
    LET n == Cardinality(DOMAIN m)
    IN  { o \in [1..n -> DOMAIN m] : \A i, j \in 1..n : o[i] = o[j] => i = j }

\* the sets the caller starts with
LabelSets == UNION { [D -> Vals] : D \in SUBSET Keys }

\* the texts the caller passes as a selector
Selectors ==
    { Join(ts, <<44>>) : ts \in UNION { [1..n -> Tokens] : n \in 0..MaxTokens } }

(***************************************************************************)
(* Set.String                                                              *)
(***************************************************************************)
\* the slice built by the range loop of String: one "key=value" per entry
Entries(ls, order) == [i \in 1..Len(order) |-> order[i] \o <<61>> \o ls[order[i]]]

\* String with the sort left out: entries in range order
StringNoSort(ls, order) == Join(Entries(ls, order), <<44>>)

\* String sorting the keys and rendering afterwards
StringSortKeys(ls, order) ==
    LET keys == Sort(order)
    IN  Join(Entries(ls, keys), <<44>>)

String(ls, order) == Join(Sort(Entries(ls, order)), <<44>>)

(***************************************************************************)
(* Conflicts                                                               *)
(***************************************************************************)
\* the set Conflicts ranges over / the set it probes
Small(labels1, labels2) ==
    IF Cardinality(DOMAIN labels2) < Cardinality(DOMAIN labels1)
    THEN labels2 ELSE labels1
Big(labels1, labels2) ==
    IF Cardinality(DOMAIN labels2) < Cardinality(DOMAIN labels1)
    THEN labels1 ELSE labels2

\* big[k] of Go: the zero value "" for an absent key
Index(m, k) == IF k \in DOMAIN m THEN m[k] ELSE <<>>

RECURSIVE ConflictsLoop(_, _, _)
ConflictsLoop(small, big, order) ==
    IF order = <<>> THEN FALSE
    ELSE LET k == order[1]
             v == small[k]
         IN  IF k \in DOMAIN big /\ big[k] # v THEN TRUE
             ELSE ConflictsLoop(small, big, Tail(order))

RECURSIVE ConflictsNoMatchLoop(_, _, _)
ConflictsNoMatchLoop(small, big, order) ==
    IF order = <<>> THEN FALSE
    ELSE IF Index(big, order[1]) # small[order[1]] THEN TRUE
    ELSE ConflictsNoMatchLoop(small, big, Tail(order))

\* Conflicts comparing big[k] with v without looking at the match flag
ConflictsNoMatch(labels1, labels2, order) ==
    ConflictsNoMatchLoop(Small(labels1, labels2), Big(labels1, labels2), order)

\* Conflicts always probing labels2, whichever set is ranged over
ConflictsNoSwap(labels1, labels2, order) ==
    ConflictsLoop(Small(labels1, labels2), labels2, order)

\* order is a range order of Small(labels1, labels2)
Conflicts(labels1, labels2, order) ==
    ConflictsLoop(Small(labels1, labels2), Big(labels1, labels2), order)

(***************************************************************************)
(* Merge                                                                   *)
(***************************************************************************)
RECURSIVE CopyInto(_, _, _)
\* for k, v := range src { dst[k] = v }
CopyInto(dst, src, order) ==
    IF order = <<>> THEN dst
    ELSE CopyInto(MapPut(dst, order[1], src[order[1]]), src, Tail(order))

\* Merge writing labels2 into labels1 itself and returning it
MergeInPlace(h, labels1, labels2, order1, order2) ==
    [heap |-> [h EXCEPT ![labels1] = CopyInto(h[labels1], h[labels2], order2)],
     ret  |-> labels1]

\* Merge with the two loops exchanged: labels1 wins
MergeFirstWins(h, labels1, labels2, order1, order2) ==
    LET mergedMap == CopyInto(CopyInto(EmptySet, h[labels2], order2), h[labels1], order1)
    IN  [heap |-> Append(h, mergedMap), ret |-> Len(h) + 1]

\* labels1, labels2 are references into h; the result is the heap after the
\* call and the reference returned
Merge(h, labels1, labels2, order1, order2) ==
    LET mergedMap == CopyInto(CopyInto(EmptySet, h[labels1], order1), h[labels2], order2)
    IN  [heap |-> Append(h, mergedMap), ret |-> Len(h) + 1]

(***************************************************************************)
(* Equals                                                                  *)
(***************************************************************************)
RECURSIVE EqualsLoop(_, _, _)
EqualsLoop(labels1, labels2, order) ==
    IF order = <<>> THEN TRUE
    ELSE LET k == order[1]
         IN  IF k \notin DOMAIN labels2 THEN FALSE
             ELSE IF labels2[k] # labels1[k] THEN FALSE
             ELSE EqualsLoop(labels1, labels2, Tail(order))

\* Equals without the length test
EqualsNoLen(labels1, labels2, order) == EqualsLoop(labels1, labels2, order)

\* order is a range order of labels1
Equals(labels1, labels2, order) ==
    IF Cardinality(DOMAIN labels1) # Cardinality(DOMAIN labels2) THEN FALSE
    ELSE EqualsLoop(labels1, labels2, order)

(***************************************************************************)
(* ConvertSelectorToLabelsMap                                              *)
(***************************************************************************)
\* the bytes the validators accept in a key or a value
LabelChars == {49, 97, 98, 120, 121}

\* "nil" or the error
validateLabelKey(key) ==
    IF key # <<>> /\ \A i \in 1..Len(key) : key[i] \in LabelChars
    THEN "nil" ELSE "invalid key"

validateLabelValue(key, value) ==
    IF \A i \in 1..Len(value) : value[i] \in LabelChars
    THEN "nil" ELSE "invalid value"

RECURSIVE ConvertLoop(_, _)
ConvertLoop(labelsMap, labels) ==
    IF labels = <<>> THEN [set |-> labelsMap, err |-> "nil"]
    ELSE LET l == Split(labels[1], 61)
         IN  IF Len(l) # 2 THEN [set |-> labelsMap, err |-> "invalid selector"]
             ELSE LET key   == TrimSpace(l[1])
                      value == TrimSpace(l[2])
                  IN  IF validateLabelKey(key) # "nil"
                      THEN [set |-> labelsMap, err |-> validateLabelKey(key)]
                      ELSE IF validateLabelValue(key, value) # "nil"
                      THEN [set |-> labelsMap, err |-> validateLabelValue(key, value)]
                      ELSE ConvertLoop(MapPut(labelsMap, key, value), Tail(labels))

RECURSIVE ConvertEagerLoop(_, _)
ConvertEagerLoop(labelsMap, labels) ==
    IF labels = <<>> THEN [set |-> labelsMap, err |-> "nil"]
    ELSE LET l == Split(labels[1], 61)
         IN  IF Len(l) # 2 THEN [set |-> labelsMap, err |-> "invalid selector"]
             ELSE LET key    == TrimSpace(l[1])
                      value  == TrimSpace(l[2])
                      stored == MapPut(labelsMap, key, value)
                  IN  IF validateLabelKey(key) # "nil"
                      THEN [set |-> labelsMap, err |-> validateLabelKey(key)]
                      ELSE IF validateLabelValue(key, value) # "nil"
                      THEN [set |-> stored, err |-> validateLabelValue(key, value)]
                      ELSE ConvertEagerLoop(stored, Tail(labels))

\* the conversion storing the entry before its value is validated
ConvertEager(sel) ==
    IF Len(sel) = 0 THEN [set |-> EmptySet, err |-> "nil"]
    ELSE ConvertEagerLoop(EmptySet, Split(sel, 44))

RECURSIVE ConvertFirstWinsLoop(_, _)
ConvertFirstWinsLoop(labelsMap, labels) ==
    IF labels = <<>> THEN [set |-> labelsMap, err |-> "nil"]
    ELSE LET l == Split(labels[1], 61)
         IN  IF Len(l) # 2 THEN [set |-> labelsMap, err |-> "invalid selector"]
             ELSE LET key   == TrimSpace(l[1])
                      value == TrimSpace(l[2])
                  IN  IF validateLabelKey(key) # "nil"
                      THEN [set |-> labelsMap, err |-> validateLabelKey(key)]
                      ELSE IF validateLabelValue(key, value) # "nil"
                      THEN [set |-> labelsMap, err |-> validateLabelValue(key, value)]
                      ELSE IF key \in DOMAIN labelsMap
                      THEN ConvertFirstWinsLoop(labelsMap, Tail(labels))
                      ELSE ConvertFirstWinsLoop(MapPut(labelsMap, key, value), Tail(labels))

\* the conversion keeping the first value of a repeated key
ConvertFirstWins(sel) ==
    IF Len(sel) = 0 THEN [set |-> EmptySet, err |-> "nil"]
    ELSE ConvertFirstWinsLoop(EmptySet, Split(sel, 44))

\* the conversion without the early return for the empty selector
ConvertNoEmptyCase(sel) == ConvertLoop(EmptySet, Split(sel, 44))

ConvertSelectorToLabelsMap(sel) ==
    IF Len(sel) = 0 THEN [set |-> EmptySet, err |-> "nil"]
    ELSE ConvertLoop(EmptySet, Split(sel, 44))

(***************************************************************************)
(* The caller: two sets, one call on them, and what it does with the       *)
(* result.                                                                 *)
(***************************************************************************)
Init ==
    /\ \E labels1, labels2 \in LabelSets : heap = <<labels1, labels2>>
    /\ op = "idle"
    /\ arg1 = 0 /\ arg2 = 0
    /\ selector = <<>>
    /\ retStr = <<>>
    /\ retBool = FALSE
    /\ retSet = 0
    /\ retErr = "nil"

CallString ==
    /\ op = "idle"
    /\ \E ls \in 1..Len(heap) : \E order \in Orders(heap[ls]) :
          /\ retStr' = String(heap[ls], order)
          /\ arg1' = ls
    /\ op' = "String"
    /\ UNCHANGED <<heap, arg2, selector, retBool, retSet, retErr>>

CallConflicts ==
    /\ op = "idle"
    /\ \E labels1, labels2 \in 1..Len(heap) :
          \E order \in Orders(Small(heap[labels1], heap[labels2])) :
             /\ retBool' = Conflicts(heap[labels1], heap[labels2], order)
             /\ arg1' = labels1 /\ arg2' = labels2
    /\ op' = "Conflicts"
    /\ UNCHANGED <<heap, selector, retStr, retSet, retErr>>

CallEquals ==
    /\ op = "idle"
    /\ \E labels1, labels2 \in 1..Len(heap) : \E order \in Orders(heap[labels1]) :
          /\ retBool' = Equals(heap[labels1], heap[labels2], order)
          /\ arg1' = labels1 /\ arg2' = labels2
    /\ op' = "Equals"
    /\ UNCHANGED <<heap, selector, retStr, retSet, retErr>>

CallMerge ==
    /\ op = "idle"
    /\ \E labels1, labels2 \in 1..Len(heap) :
          \E order1 \in Orders(heap[labels1]), order2 \in Orders(heap[labels2]) :
             LET r == Merge(heap, labels1, labels2, order1, order2)
             IN  /\ heap' = r.heap
                 /\ retSet' = r.ret
                 /\ arg1' = labels1 /\ arg2' = labels2
    /\ op' = "Merge"
    /\ UNCHANGED <<selector, retStr, retBool, retErr>>

\* the caller writes an entry of the set Merge returned
WriteMerged ==
    /\ op = "Merge"
    /\ \E k \in Keys, v \in Vals :
          heap' = [heap EXCEPT ![retSet] = MapPut(@, k, v)]
    /\ op' = "Written"
    /\ UNCHANGED <<arg1, arg2, selector, retStr, retBool, retSet, retErr>>

\* ConvertSelectorToLabelsMap(text)
CallConvert ==
    /\ op = "idle"
    /\ \E sel \in Selectors :
          LET r == ConvertSelectorToLabelsMap(sel)
          IN  /\ selector' = sel
              /\ heap' = Append(heap, r.set)
              /\ retSet' = Len(heap) + 1
              /\ retErr' = r.err
    /\ op' = "Convert"
    /\ UNCHANGED <<arg1, arg2, retStr, retBool>>

\* ConvertSelectorToLabelsMap(ls.String()); arg1 stays the reference of ls
CallConvertString ==
    /\ op = "String"
    /\ LET r == ConvertSelectorToLabelsMap(retStr)
       IN  /\ selector' = retStr
           /\ heap' = Append(heap, r.set)
           /\ retSet' = Len(heap) + 1
           /\ retErr' = r.err
    /\ op' = "Reparsed"
    /\ UNCHANGED <<arg1, arg2, retStr, retBool>>

Next ==
    \/ CallString
    \/ CallConflicts
    \/ CallEquals
    \/ CallMerge
    \/ WriteMerged
    \/ CallConvert
    \/ CallConvertString

Spec == Init /\ [][Next]_vars

TypeOK ==
    /\ op \in {"idle", "String", "Conflicts", "Equals", "Merge", "Written",
               "Convert", "Reparsed"}
    /\ arg1 \in 0..Len(heap) /\ arg2 \in 0..Len(heap)
    /\ retSet \in 0..Len(heap)
    /\ retBool \in BOOLEAN
    /\ retErr \in {"nil", "invalid selector", "invalid key", "invalid value"}

(***************************************************************************)
(* Properties.  What a call must return is stated on the contents of the   *)
(* sets and on the text of the selector, not by the loops above.           *)
(***************************************************************************)
\* the permutations of a set of strings
Perms(S) ==
    LET n == Cardinality(S)
    IN  { p \in [1..n -> S] : \A i, j \in 1..n : p[i] = p[j] => i = j }

Ascending(p) == \A i, j \in 1..Len(p) : i < j => StrLess(p[i], p[j])

\* the "key=value" renderings of the entries of ls
Rendered(ls) == { k \o <<61>> \o ls[k] : k \in DOMAIN ls }

\* the keys of ls in ascending order
KeysAscending(ls) == CHOOSE p \in Perms(DOMAIN ls) : Ascending(p)

\* C1 as stated: String() lists the entries as key=value, joined by single
\* commas, in ascending order of their keys; the empty set gives "".
C1_SortedByKey ==
    op = "String" =>
        retStr = Join([i \in 1..Cardinality(DOMAIN heap[arg1]) |->
                          KeysAscending(heap[arg1])[i] \o <<61>>
                              \o heap[arg1][KeysAscending(heap[arg1])[i]]],
                      <<44>>)

\* C1 amended: String() lists the entries as key=value, joined by single
\* commas, in ascending byte order of the rendered key=value texts; the
\* empty set gives "".
C1_SortedByEntry ==
    op = "String" =>
        /\ \E p \in Perms(Rendered(heap[arg1])) :
              Ascending(p) /\ retStr = Join(p, <<44>>)
        /\ heap[arg1] = EmptySet => retStr = <<>>

\* a set was rendered in which the order of the keys and the order of the
\* rendered entries differ
C1_Witness ==
    /\ op = "String"
    /\ \E k1, k2 \in DOMAIN heap[arg1] :
          /\ StrLess(k1, k2)
          /\ StrLess(k2 \o <<61>> \o heap[arg1][k2], k1 \o <<61>> \o heap[arg1][k1])

\* --- the text of a selector ---
EqCount(t) == Cardinality({ i \in 1..Len(t) : t[i] = 61 })
EqPos(t) == CHOOSE i \in 1..Len(t) : t[i] = 61
KeyPart(t) == TrimSpace(SubSeq(t, 1, EqPos(t) - 1))
ValuePart(t) == TrimSpace(SubSeq(t, EqPos(t) + 1, Len(t)))

\* why a token is refused, "nil" when it is accepted
TokenErr(t) ==
    IF EqCount(t) # 1 THEN "invalid selector"
    ELSE IF validateLabelKey(KeyPart(t)) # "nil" THEN "invalid key"
    ELSE IF validateLabelValue(KeyPart(t), ValuePart(t)) # "nil" THEN "invalid value"
    ELSE "nil"

\* the entries of the first n tokens, the last token of a key giving its value
EntriesOf(toks, n) ==
    [k \in { KeyPart(toks[j]) : j \in 1..n } |->
        ValuePart(toks[CHOOSE j \in 1..n :
                          /\ KeyPart(toks[j]) = k
                          /\ \A h \in (j+1)..n : KeyPart(toks[h]) # k])]

\* C2: a failing conversion fails on the first token, from the left, that
\* has not exactly one '=' or whose trimmed key or value is refused, and
\* returns with the error exactly the entries of the tokens before it.
C2_FailsOnFirstBadToken ==
    (op \in {"Convert", "Reparsed"} /\ retErr # "nil") =>
        LET toks == Split(selector, 44)
        IN  \E i \in 1..Len(toks) :
               /\ TokenErr(toks[i]) = retErr
               /\ \A j \in 1..(i-1) : TokenErr(toks[j]) = "nil"
               /\ heap[retSet] = EntriesOf(toks, i - 1)

\* a conversion failed after it had stored an entry
C2_Witness ==
    /\ op = "Convert"
    /\ retErr # "nil"
    /\ heap[retSet] # EmptySet
    /\ TokenErr(Split(selector, 44)[2]) = "invalid value"

\* C3: when every token of a non-empty selector is accepted the conversion
\* returns no error and the trimmed keys, each with the trimmed value of
\* its last token; the empty selector gives the empty set and no error.
C3_ConvertsWellFormed ==
    op \in {"Convert", "Reparsed"} =>
        LET toks == Split(selector, 44)
        IN  /\ (selector # <<>> /\ \A i \in 1..Len(toks) : TokenErr(toks[i]) = "nil")
                  => /\ retErr = "nil"
                     /\ heap[retSet] = EntriesOf(toks, Len(toks))
            /\ selector = <<>> => (retErr = "nil" /\ heap[retSet] = EmptySet)

\* a selector naming one key twice, with different values, was converted
C3_Witness ==
    /\ op = "Convert"
    /\ retErr = "nil"
    /\ LET toks == Split(selector, 44)
       IN  /\ Len(toks) = 2
           /\ KeyPart(toks[1]) = KeyPart(toks[2])
           /\ ValuePart(toks[1]) # ValuePart(toks[2])

\* no '=', no ',', no white space at either end
Plain(s) == (\A i \in 1..Len(s) : s[i] \notin {61, 44}) /\ TrimSpace(s) = s

\* the sets the round trip is promised for
RoundTrippable(ls) ==
    \A k \in DOMAIN ls :
        /\ Plain(k) /\ Plain(ls[k])
        /\ validateLabelKey(k) = "nil"
        /\ validateLabelValue(k, ls[k]) = "nil"

\* C4: converting the String() of a set of plain, valid keys and values
\* gives no error and a set that Equals the original.
C4_RoundTrip ==
    (op = "Reparsed" /\ RoundTrippable(heap[arg1])) =>
        /\ retErr = "nil"
        /\ \A order \in Orders(heap[retSet]) :
              Equals(heap[retSet], heap[arg1], order)

\* the String() of a valid set of several entries was converted back
C4_Witness ==
    /\ op = "Reparsed"
    /\ RoundTrippable(heap[arg1])
    /\ Cardinality(DOMAIN heap[arg1]) >= 2

\* some key is in both sets with different values
SharedKeyDiffers(a, b) == \E k \in (DOMAIN a) \cap (DOMAIN b) : a[k] # b[k]

\* C5: Conflicts(a, b) is true exactly when a key is in both sets with
\* different values; so it is the same for (b, a), false for (a, a) and
\* false for sets without a common key.
C5_ConflictsIffSharedKeyDiffers ==
    op = "Conflicts" =>
        LET a == heap[arg1]
            b == heap[arg2]
        IN  /\ retBool = SharedKeyDiffers(a, b)
            /\ \A order \in Orders(Small(b, a)) : Conflicts(b, a, order) = retBool
            /\ arg1 = arg2 => ~retBool
            /\ (DOMAIN a) \cap (DOMAIN b) = {} => ~retBool

\* Conflicts found a conflict ranging over its second, smaller argument,
\* which also has an entry that agrees with the first
C5_Witness ==
    /\ op = "Conflicts"
    /\ retBool
    /\ Cardinality(DOMAIN heap[arg2]) < Cardinality(DOMAIN heap[arg1])
    /\ \E k \in DOMAIN heap[arg2] : heap[arg1][k] = heap[arg2][k]

\* C6: the keys of Merge(a, b) are those of a and those of b; a key of b
\* has b's value, a key of a alone has a's value.
C6_MergeRightBiased ==
    op = "Merge" =>
        LET a == heap[arg1]
            b == heap[arg2]
            m == heap[retSet]
        IN  /\ DOMAIN m = (DOMAIN a) \cup (DOMAIN b)
            /\ \A k \in DOMAIN b : m[k] = b[k]
            /\ \A k \in (DOMAIN a) \ (DOMAIN b) : m[k] = a[k]

\* sets were merged that collide on a key and each have a key of their own
C6_Witness ==
    /\ op = "Merge"
    /\ SharedKeyDiffers(heap[arg1], heap[arg2])
    /\ (DOMAIN heap[arg1]) \ (DOMAIN heap[arg2]) # {}
    /\ (DOMAIN heap[arg2]) \ (DOMAIN heap[arg1]) # {}

\* a and b have the same keys and the same value for every key
SameMapping(a, b) == DOMAIN a = DOMAIN b /\ \A k \in DOMAIN a : a[k] = b[k]

\* C7: Equals(a, b) is true exactly when a and b are the same mapping; so
\* it is the same for (b, a) and true for (a, a).
C7_EqualsIffSameMapping ==
    op = "Equals" =>
        LET a == heap[arg1]
            b == heap[arg2]
        IN  /\ retBool = SameMapping(a, b)
            /\ \A order \in Orders(b) : Equals(b, a, order) = retBool
            /\ arg1 = arg2 => retBool

\* Equals refused a set that is contained in a larger one
C7_Witness ==
    /\ op = "Equals"
    /\ ~retBool
    /\ heap[arg1] # EmptySet
    /\ Cardinality(DOMAIN heap[arg1]) < Cardinality(DOMAIN heap[arg2])
    /\ \A k \in DOMAIN heap[arg1] :
          k \in DOMAIN heap[arg2] /\ heap[arg2][k] = heap[arg1][k]

\* C8: String() depends on the contents only: a set that Equals the one
\* rendered gives the same string in every order its entries are ranged.
C8_StringOfContents ==
    op = "String" =>
        \A r \in 1..Len(heap) :
            (\E o1 \in Orders(heap[arg1]) : Equals(heap[arg1], heap[r], o1))
                => \A order \in Orders(heap[r]) : String(heap[r], order) = retStr

\* a set of several entries was rendered and the caller holds an equal set
\* behind another reference
C8_Witness ==
    /\ op = "String"
    /\ Cardinality(DOMAIN heap[arg1]) >= 2
    /\ \E r \in 1..Len(heap) : r # arg1 /\ SameMapping(heap[r], heap[arg1])

\* C9: Merge changes neither argument and returns a set of its own, which
\* is neither argument: a later write to it changes neither.
C9_MergeIsFresh ==
    [][ /\ op' = "Merge" =>
             /\ heap'[1] = heap[1] /\ heap'[2] = heap[2]
             /\ retSet' \notin {arg1', arg2'}
        /\ op' = "Written" =>
             /\ heap'[1] = heap[1] /\ heap'[2] = heap[2] ]_vars

\* the result of merging a set with an empty one was written, and is now
\* different from that set
C9_Witness ==
    /\ op = "Written"
    /\ heap[arg2] = EmptySet
    /\ heap[arg1] # EmptySet
    /\ heap[retSet] # heap[arg1]

\* C10: Merge(a, b) Equals Merge(b, a) exactly when a and b do not conflict.
C10_MergeCommutesIffNoConflict ==
    op = "Merge" =>
        \A order1 \in Orders(heap[arg1]), order2 \in Orders(heap[arg2]) :
            LET r == Merge(heap, arg2, arg1, order2, order1)
                m == r.heap[r.ret]
            IN  \A oe \in Orders(heap[retSet]),
                   oc \in Orders(Small(heap[arg1], heap[arg2])) :
                      Equals(heap[retSet], m, oe)
                          = ~Conflicts(heap[arg1], heap[arg2], oc)

\* conflicting sets were merged, the second one being the smaller
C10_Witness ==
    /\ op = "Merge"
    /\ SharedKeyDiffers(heap[arg1], heap[arg2])
    /\ Cardinality(DOMAIN heap[arg2]) < Cardinality(DOMAIN heap[arg1])
====
